---- MODULE Spec2Model ----
(***************************************************************************)
(* ratatuio: the application state, the run loop and the deferred view     *)
(* swap of src/src/app.rs, as a state machine.                             *)
(*                                                                         *)
(* Threads: "main" calls init, change_view and run; the event handler of   *)
(* the active view runs on "main" inside run's dispatch and may itself     *)
(* call change_view, init and set APPLICATION.is_running (lib.rs:60-65).   *)
(* Every other thread calls init and change_view, sets is_running to false *)
(* and reads VIEW.  Each statement of app.rs that touches shared state is  *)
(* one step: _CHANGE_VIEW and _NEXT_VIEW are `static mut` without a lock,  *)
(* so their reads and writes interleave freely between threads.            *)
(***************************************************************************)
EXTENDS Naturals, FiniteSets, Sequences

\* Bounds of the model.
MaxEvents == 2
MaxHandlerOps == 2
MaxRuns == 1
MaxMainCalls == 1
MaxLateCalls == 1
MaxExtCalls == 1

Views == {"A", "B", "C"}
InitViews == {"A", "B"}   \* the views init is called with
NextViews == {"B", "C"}   \* the views change_view is called with
None == "None"
NoThread == "none"
Main == "main"
ExtThreads == {"t1"}
Threads == {Main} \cup ExtThreads

VARIABLES
    APPLICATION,   \* app.rs:27  [some, is_running]; some = FALSE is None
    VIEW,          \* app.rs:44  None or the active view
    _CHANGE_VIEW,  \* app.rs:46  the swap-due flag
    _NEXT_VIEW,    \* app.rs:47  None or the queued view
    viewLock,      \* the RwLock of VIEW: [writer, readers]
    appLock,       \* the thread holding APPLICATION's write guard, or NoThread
    viewPoisoned,  \* VIEW's RwLock is poisoned (a writer panicked)
    pc,            \* each thread's position in the code
    arg,           \* each thread's `view` argument of the call in progress
    is_running,    \* run's local `is_running` (app.rs:88, 116)
    inDispatch,    \* "main" is inside handle_events (app.rs:110-114)
    hops,          \* calls the handler in progress has made
    terminal,      \* [acquired, restored]: ratatui::init / ratatui::restore calls
    runResult,     \* how the last call of run ended: "none", "Ok", "Err", "panic"
    ops,           \* per call of run: [swaps, renders, reads, dispatches]
    nRuns,         \* calls of run so far
    nCalls,        \* calls each thread has started outside run
    lastRendered,  \* the view the last render painted
    hreq,          \* the view a change_view of the handler queued, until it is
                   \* painted or run is called again
    firstReq,      \* the first view requested since the last swap was applied
    dropped,       \* the view of the last change_view call that returned
                   \* without queuing it, since the last swap was applied
    stopping,      \* the handler in progress, or the last one, set is_running = false
    hres           \* what the last handle_events returned: "none", "Ok", "Err"

shared == <<APPLICATION, VIEW, _CHANGE_VIEW, _NEXT_VIEW>>
locks == <<viewLock, appLock, viewPoisoned>>
ctl == <<pc, arg>>
runv == <<is_running, inDispatch, hops, hres, terminal, runResult, ops, nRuns>>
hist == <<lastRendered, hreq, firstReq, dropped, stopping>>
vars == <<shared, locks, ctl, runv, hist, nCalls>>

NoApp == [some |-> FALSE, is_running |-> FALSE]
NewApp == [some |-> TRUE, is_running |-> TRUE]
FreeLock == [writer |-> NoThread, readers |-> {}]
NoOps == [swaps |-> 0, renders |-> 0, reads |-> 0, dispatches |-> 0]

----
\* std::sync::RwLock, as app.rs uses it for VIEW and APPLICATION.

\* `VIEW.write()` returns for thread t: no other guard is out.
ViewWriteFree(t) == viewLock.writer = NoThread /\ viewLock.readers = {}

\* `VIEW.read()` returns for thread t: no write guard is out.
ViewReadFree(t) == viewLock.writer = NoThread

\* Thread t already holds a guard of VIEW: a further write() on the same
\* thread never returns, or panics (std: "might panic ... if the lock is
\* already held by the current thread").
ViewHeldBy(t) == viewLock.writer = t \/ t \in viewLock.readers

\* `APPLICATION.read()` / `.write()` returns: init's write guard is not out.
\* Every other guard of APPLICATION is a temporary of one statement.
AppFree(t) == appLock = NoThread

\* The lock of VIEW after thread t's guards are dropped.
Dropped(t) ==
    [writer |-> IF viewLock.writer = t THEN NoThread ELSE viewLock.writer,
     readers |-> viewLock.readers \ {t}]

\* Where a call of thread t returns to: the handler that made it, or the
\* thread's top level.
ReturnPc(t) == IF t = Main /\ inDispatch THEN "r_handler" ELSE "idle"

\* The positions of "main" in run (app.rs:85-126).
RunPcs == {"r_app", "r_while", "r_clearflag", "r_swaplock",
           "r_take", "r_clearslot", "r_draw", "r_render", "r_dlock",
           "r_evread", "r_handler", "r_try", "r_reread", "r_restore"}

\* "main" is inside run, a call made by the handler included.
InRun == pc[Main] \in RunPcs \/ inDispatch

\* Thread t panics: its guards are dropped while unwinding, a write guard of
\* VIEW poisons the lock; a panic inside run ends run.
Panic(t) ==
    /\ pc' = [pc EXCEPT ![t] = "panicked"]
    /\ viewLock' = Dropped(t)
    /\ viewPoisoned' = (viewPoisoned \/ viewLock.writer = t)
    /\ appLock' = IF appLock = t THEN NoThread ELSE appLock
    /\ runResult' = IF t = Main /\ InRun THEN "panic" ELSE runResult
    /\ stopping' = IF t = Main THEN FALSE ELSE stopping
    /\ UNCHANGED <<shared, arg, is_running, inDispatch, hops, hres, terminal,
                   ops, nRuns, nCalls, lastRendered, hreq, firstReq, dropped>>

----
Init ==
    /\ APPLICATION = NoApp
    /\ VIEW = None
    /\ _CHANGE_VIEW = FALSE
    /\ _NEXT_VIEW = None
    /\ viewLock = FreeLock
    /\ appLock = NoThread
    /\ viewPoisoned = FALSE
    /\ pc = [t \in Threads |-> "idle"]
    /\ arg = [t \in Threads |-> None]
    /\ is_running = FALSE
    /\ inDispatch = FALSE
    /\ hops = 0
    /\ terminal = [acquired |-> 0, restored |-> 0]
    /\ runResult = "none"
    /\ ops = NoOps
    /\ nRuns = 0
    /\ nCalls = [t \in Threads |-> 0]
    /\ lastRendered = None
    /\ hreq = None
    /\ firstReq = None
    /\ dropped = None
    /\ stopping = FALSE
    /\ hres = "none"

----
\* init (app.rs:61-71)

\* InitLockView that goes on without the write guard of VIEW.
InitLockViewNoWait(t) ==
    /\ pc[t] = "i_vlock"
    /\ pc' = [pc EXCEPT ![t] = "i_vset"]
    /\ UNCHANGED <<shared, locks, arg, runv, hist, nCalls>>

\* app.rs:62  let mut mainpage = VIEW.write().expect(..)
\* Called by the handler, "main" already holds the write guard of the
\* dispatch: write() never returns (the thread stays at "hung" with its
\* guards), or panics (std: "might panic ... if the lock is already held by
\* the current thread").
InitLockView(t) ==
    /\ pc[t] = "i_vlock"
    /\ \/ /\ ViewHeldBy(t)
          /\ \/ /\ pc' = [pc EXCEPT ![t] = "hung"]
                /\ UNCHANGED <<shared, locks, arg, runv, hist, nCalls>>
             \/ Panic(t)
       \/ /\ ~ViewHeldBy(t)
          /\ ViewWriteFree(t)
          /\ IF viewPoisoned
             THEN Panic(t)
             ELSE /\ viewLock' = [viewLock EXCEPT !.writer = t]
                  /\ pc' = [pc EXCEPT ![t] = "i_vset"]
                  /\ UNCHANGED <<shared, appLock, viewPoisoned, arg, runv, hist, nCalls>>

\* InitSetView without the is_none() test: every init replaces the view.
InitSetViewOverwrite(t) ==
    /\ pc[t] = "i_vset"
    /\ VIEW' = arg[t]
    /\ pc' = [pc EXCEPT ![t] = "i_alock"]
    /\ UNCHANGED <<APPLICATION, _CHANGE_VIEW, _NEXT_VIEW, locks, arg, runv, hist, nCalls>>

\* app.rs:63-65  if mainpage.is_none() { *mainpage = Some(Box::new(view)) }
InitSetView(t) ==
    /\ pc[t] = "i_vset"
    /\ VIEW' = IF VIEW = None THEN arg[t] ELSE VIEW
    /\ pc' = [pc EXCEPT ![t] = "i_alock"]
    /\ UNCHANGED <<APPLICATION, _CHANGE_VIEW, _NEXT_VIEW, locks, arg, runv, hist, nCalls>>

\* app.rs:67  let mut app = APPLICATION.write().expect(..)
InitLockApp(t) ==
    /\ pc[t] = "i_alock"
    /\ AppFree(t)
    /\ appLock' = t
    /\ pc' = [pc EXCEPT ![t] = "i_aset"]
    /\ UNCHANGED <<shared, viewLock, viewPoisoned, arg, runv, hist, nCalls>>

\* app.rs:68-71  if app.is_none() { *app = Some(App { is_running: true }) }
\* and the end of init drops `app`, the later of the two guards, first.
InitSetApp(t) ==
    /\ pc[t] = "i_aset"
    /\ APPLICATION' = IF APPLICATION.some THEN APPLICATION ELSE NewApp
    /\ appLock' = NoThread
    /\ pc' = [pc EXCEPT ![t] = "i_vdrop"]
    /\ UNCHANGED <<VIEW, _CHANGE_VIEW, _NEXT_VIEW, viewLock, viewPoisoned, arg,
                   runv, hist, nCalls>>

\* app.rs:71  the end of init then drops `mainpage`, the guard of VIEW, and
\* init returns.
InitDropView(t) ==
    /\ pc[t] = "i_vdrop"
    /\ viewLock' = Dropped(t)
    /\ pc' = [pc EXCEPT ![t] = ReturnPc(t)]
    /\ arg' = [arg EXCEPT ![t] = None]
    /\ UNCHANGED <<shared, appLock, viewPoisoned, runv, hist, nCalls>>

----
\* change_view (app.rs:134-146)

\* ChangeViewCheckApp without the test of APPLICATION.
ChangeViewCheckAppNoPanic(t) ==
    /\ pc[t] = "cv_app"
    /\ AppFree(t)
    /\ pc' = [pc EXCEPT ![t] = "cv_flag"]
    /\ firstReq' = IF firstReq = None THEN arg[t] ELSE firstReq
    /\ UNCHANGED <<shared, locks, arg, runv, nCalls, lastRendered, hreq, dropped, stopping>>

\* app.rs:135-137  if APPLICATION.read().unwrap().is_none() { panic!(..) }
ChangeViewCheckApp(t) ==
    /\ pc[t] = "cv_app"
    /\ AppFree(t)
    /\ IF ~APPLICATION.some
       THEN Panic(t)
       ELSE /\ pc' = [pc EXCEPT ![t] = "cv_flag"]
            /\ firstReq' = IF firstReq = None THEN arg[t] ELSE firstReq
            /\ UNCHANGED <<shared, locks, arg, runv, nCalls, lastRendered, hreq, dropped, stopping>>

\* ChangeViewCheckFlag without the early return: the last request wins.
ChangeViewCheckFlagLastWins(t) ==
    /\ pc[t] = "cv_flag"
    /\ pc' = [pc EXCEPT ![t] = "cv_setflag"]
    /\ UNCHANGED <<shared, locks, arg, runv, hist, nCalls>>

\* app.rs:140-142  if _CHANGE_VIEW { return; }
ChangeViewCheckFlag(t) ==
    /\ pc[t] = "cv_flag"
    /\ IF _CHANGE_VIEW
       THEN /\ pc' = [pc EXCEPT ![t] = ReturnPc(t)]
            /\ arg' = [arg EXCEPT ![t] = None]
            /\ dropped' = arg[t]
       ELSE /\ pc' = [pc EXCEPT ![t] = "cv_setflag"]
            /\ arg' = arg
            /\ dropped' = dropped
    /\ UNCHANGED <<shared, locks, runv, nCalls, lastRendered, hreq, firstReq, stopping>>

\* app.rs:143  _CHANGE_VIEW = true;
ChangeViewSetFlag(t) ==
    /\ pc[t] = "cv_setflag"
    /\ _CHANGE_VIEW' = TRUE
    /\ pc' = [pc EXCEPT ![t] = "cv_store"]
    /\ UNCHANGED <<APPLICATION, VIEW, _NEXT_VIEW, locks, arg, runv, hist, nCalls>>

\* ChangeViewStore that also replaces the active view at once.
ChangeViewStoreImmediate(t) ==
    /\ pc[t] = "cv_store"
    /\ _NEXT_VIEW' = arg[t]
    /\ VIEW' = arg[t]
    /\ hreq' = IF t = Main /\ inDispatch THEN arg[t] ELSE hreq
    /\ pc' = [pc EXCEPT ![t] = ReturnPc(t)]
    /\ arg' = [arg EXCEPT ![t] = None]
    /\ UNCHANGED <<APPLICATION, _CHANGE_VIEW, locks, runv, nCalls,
                   lastRendered, firstReq, dropped, stopping>>

\* ChangeViewStore that stores the view under the write lock of VIEW.
ChangeViewStoreLocked(t) ==
    /\ pc[t] = "cv_store"
    /\ ViewWriteFree(t)
    /\ _NEXT_VIEW' = arg[t]
    /\ hreq' = IF t = Main /\ inDispatch THEN arg[t] ELSE hreq
    /\ pc' = [pc EXCEPT ![t] = ReturnPc(t)]
    /\ arg' = [arg EXCEPT ![t] = None]
    /\ UNCHANGED <<APPLICATION, VIEW, _CHANGE_VIEW, locks, runv, nCalls,
                   lastRendered, firstReq, dropped, stopping>>

\* app.rs:144  _NEXT_VIEW = Some(Box::new(view));
ChangeViewStore(t) ==
    /\ pc[t] = "cv_store"
    /\ _NEXT_VIEW' = arg[t]
    /\ hreq' = IF t = Main /\ inDispatch THEN arg[t] ELSE hreq
    /\ pc' = [pc EXCEPT ![t] = ReturnPc(t)]
    /\ arg' = [arg EXCEPT ![t] = None]
    /\ UNCHANGED <<APPLICATION, VIEW, _CHANGE_VIEW, locks, runv, nCalls,
                   lastRendered, firstReq, dropped, stopping>>

\* The steps of init and change_view, on any thread.
CallStep(t) ==
    \/ InitLockView(t)
    \/ InitSetView(t)
    \/ InitLockApp(t)
    \/ InitSetApp(t)
    \/ InitDropView(t)
    \/ ChangeViewCheckApp(t)
    \/ ChangeViewCheckFlag(t)
    \/ ChangeViewSetFlag(t)
    \/ ChangeViewStore(t)

\* The calls thread t may begin.
CallBudget(t) == IF t = Main THEN MaxMainCalls ELSE MaxExtCalls

\* A call of init or change_view begins on thread t, outside run.
StartInit(t, v) ==
    /\ pc[t] = "idle"
    /\ nCalls[t] < CallBudget(t)
    /\ nCalls' = [nCalls EXCEPT ![t] = @ + 1]
    /\ pc' = [pc EXCEPT ![t] = "i_vlock"]
    /\ arg' = [arg EXCEPT ![t] = v]
    /\ UNCHANGED <<shared, locks, runv, hist>>

\* Once run has returned Ok, "main" may make MaxLateCalls more calls of
\* change_view.
StartChangeView(t, v) ==
    /\ pc[t] = "idle"
    /\ nCalls[t] < CallBudget(t) +
                    (IF t = Main /\ runResult = "Ok" THEN MaxLateCalls ELSE 0)
    /\ nCalls' = [nCalls EXCEPT ![t] = @ + 1]
    /\ pc' = [pc EXCEPT ![t] = "cv_app"]
    /\ arg' = [arg EXCEPT ![t] = v]
    /\ UNCHANGED <<shared, locks, runv, hist>>

----
\* run (app.rs:85-126), on "main"

\* run returns Err through `?` (app.rs:108, 114): the guards of the statement
\* are dropped; ratatui::restore() (app.rs:124) is not reached.
ReturnErr ==
    /\ pc' = [pc EXCEPT ![Main] = "idle"]
    /\ viewLock' = Dropped(Main)
    /\ runResult' = "Err"
    /\ inDispatch' = FALSE
    /\ stopping' = FALSE

\* app.rs:86  let mut terminal = ratatui::init();
RunStart ==
    /\ pc[Main] = "idle"
    /\ nRuns < MaxRuns
    /\ nRuns' = nRuns + 1
    /\ terminal' = [terminal EXCEPT !.acquired = @ + 1]
    /\ runResult' = "none"
    /\ ops' = NoOps
    /\ hres' = "none"
    /\ hreq' = None
    /\ pc' = [pc EXCEPT ![Main] = "r_app"]
    /\ UNCHANGED <<shared, locks, arg, is_running, inDispatch, hops, nCalls,
                   lastRendered, firstReq, dropped, stopping>>

\* RunReadApp that takes a missing App for one that is not running.
RunReadAppSilent ==
    /\ pc[Main] = "r_app"
    /\ AppFree(Main)
    /\ is_running' = (APPLICATION.some /\ APPLICATION.is_running)
    /\ pc' = [pc EXCEPT ![Main] = "r_while"]
    /\ UNCHANGED <<shared, locks, arg, inDispatch, hops, hres, terminal,
                   runResult, ops, nRuns, hist, nCalls>>

\* app.rs:88-93  let mut is_running = APPLICATION.read().unwrap().as_ref().expect(..).is_running;
RunReadApp ==
    /\ pc[Main] = "r_app"
    /\ AppFree(Main)
    /\ IF ~APPLICATION.some
       THEN Panic(Main)
       ELSE /\ is_running' = APPLICATION.is_running
            /\ pc' = [pc EXCEPT ![Main] = "r_while"]
            /\ UNCHANGED <<shared, locks, arg, inDispatch, hops, hres, terminal,
                           runResult, ops, nRuns, hist, nCalls>>

\* RunLoopTop of a loop that tests is_running only after its first iteration.
RunLoopTopDoWhile ==
    /\ pc[Main] = "r_while"
    /\ pc' = [pc EXCEPT ![Main] =
                IF ~is_running /\ ops.renders > 0 THEN "r_restore"
                ELSE IF _CHANGE_VIEW THEN "r_clearflag" ELSE "r_draw"]
    /\ UNCHANGED <<shared, locks, arg, runv, hist, nCalls>>

\* app.rs:95-97  while is_running { if _CHANGE_VIEW { .. } .. }
RunLoopTop ==
    /\ pc[Main] = "r_while"
    /\ pc' = [pc EXCEPT ![Main] =
                IF ~is_running THEN "r_restore"
                ELSE IF _CHANGE_VIEW THEN "r_clearflag" ELSE "r_draw"]
    /\ UNCHANGED <<shared, locks, arg, runv, hist, nCalls>>

\* app.rs:98  _CHANGE_VIEW = false;
RunClearFlag ==
    /\ pc[Main] = "r_clearflag"
    /\ _CHANGE_VIEW' = FALSE
    /\ pc' = [pc EXCEPT ![Main] = "r_swaplock"]
    /\ UNCHANGED <<APPLICATION, VIEW, _NEXT_VIEW, locks, arg, runv, hist, nCalls>>

\* RunSwapLock that goes on to the swap without the write guard.
RunSwapLockUnguarded ==
    /\ pc[Main] = "r_swaplock"
    /\ pc' = [pc EXCEPT ![Main] = "r_take"]
    /\ UNCHANGED <<shared, locks, arg, runv, hist, nCalls>>

\* app.rs:99  let mut mainpage = VIEW.write().expect(..);
RunSwapLock ==
    /\ pc[Main] = "r_swaplock"
    /\ ViewWriteFree(Main)
    /\ IF viewPoisoned
       THEN Panic(Main)
       ELSE /\ viewLock' = [viewLock EXCEPT !.writer = Main]
            /\ pc' = [pc EXCEPT ![Main] = "r_take"]
            /\ UNCHANGED <<shared, appLock, viewPoisoned, arg, runv, hist, nCalls>>

\* RunSwapTake that empties the slot and leaves the active view as it is.
RunSwapTakeDiscard ==
    /\ pc[Main] = "r_take"
    /\ IF _NEXT_VIEW = None
       THEN Panic(Main)
       ELSE /\ _NEXT_VIEW' = None
            /\ ops' = [ops EXCEPT !.swaps = @ + 1]
            /\ firstReq' = None
            /\ dropped' = None
            /\ pc' = [pc EXCEPT ![Main] = "r_clearslot"]
            /\ UNCHANGED <<APPLICATION, VIEW, _CHANGE_VIEW, locks, arg, is_running,
                           inDispatch, hops, hres, terminal, runResult, nRuns,
                           lastRendered, hreq, stopping, nCalls>>

\* app.rs:100  *mainpage = Some(_NEXT_VIEW.take().unwrap());
RunSwapTake ==
    /\ pc[Main] = "r_take"
    /\ IF _NEXT_VIEW = None
       THEN Panic(Main)
       ELSE /\ VIEW' = _NEXT_VIEW
            /\ _NEXT_VIEW' = None
            /\ ops' = [ops EXCEPT !.swaps = @ + 1]
            /\ firstReq' = None
            /\ dropped' = None
            /\ pc' = [pc EXCEPT ![Main] = "r_clearslot"]
            /\ UNCHANGED <<APPLICATION, _CHANGE_VIEW, locks, arg, is_running,
                           inDispatch, hops, hres, terminal, runResult, nRuns,
                           lastRendered, hreq, stopping, nCalls>>

\* RunClearSlot that goes on to the dispatch without a render of the new view.
RunClearSlotSkipDraw ==
    /\ pc[Main] = "r_clearslot"
    /\ _NEXT_VIEW' = None
    /\ viewLock' = Dropped(Main)
    /\ pc' = [pc EXCEPT ![Main] = "r_dlock"]
    /\ UNCHANGED <<APPLICATION, VIEW, _CHANGE_VIEW, appLock, viewPoisoned, arg,
                   runv, hist, nCalls>>

\* app.rs:101-102  _NEXT_VIEW = None; and the end of the block drops mainpage.
RunClearSlot ==
    /\ pc[Main] = "r_clearslot"
    /\ _NEXT_VIEW' = None
    /\ viewLock' = Dropped(Main)
    /\ pc' = [pc EXCEPT ![Main] = "r_draw"]
    /\ UNCHANGED <<APPLICATION, VIEW, _CHANGE_VIEW, appLock, viewPoisoned, arg,
                   runv, hist, nCalls>>

\* app.rs:105-106  terminal.draw(|frame| { ..VIEW.read().unwrap().. })?
\* draw fails before it calls the closure, or the closure takes the read guard.
RunDrawBegin ==
    /\ pc[Main] = "r_draw"
    /\ \/ /\ ReturnErr
          /\ UNCHANGED <<shared, appLock, viewPoisoned, arg, is_running, hops, hres,
                         terminal, ops, nRuns, lastRendered, hreq, firstReq,
                         dropped, nCalls>>
       \/ /\ ViewReadFree(Main)
          /\ IF viewPoisoned
             THEN Panic(Main)
             ELSE /\ viewLock' = [viewLock EXCEPT !.readers = @ \cup {Main}]
                  /\ pc' = [pc EXCEPT ![Main] = "r_render"]
                  /\ UNCHANGED <<shared, appLock, viewPoisoned, arg, runv, hist, nCalls>>

\* app.rs:106-108  ViewWidgetWrapper(..as_ref().unwrap()).render_ref(..); the
\* guard is dropped; draw then flushes the frame, which may fail.
RunRender ==
    /\ pc[Main] = "r_render"
    /\ IF VIEW = None
       THEN Panic(Main)
       ELSE /\ lastRendered' = VIEW
            /\ hreq' = None
            /\ ops' = [ops EXCEPT !.renders = @ + 1]
            /\ \/ /\ pc' = [pc EXCEPT ![Main] = "r_dlock"]
                  /\ viewLock' = Dropped(Main)
                  /\ UNCHANGED <<runResult, inDispatch, stopping>>
               \/ ReturnErr
            /\ UNCHANGED <<shared, appLock, viewPoisoned, arg, is_running, hops,
                           hres, terminal, nRuns, firstReq, dropped, nCalls>>

\* app.rs:110-113  VIEW.write().unwrap().as_mut().unwrap(): the receiver of
\* handle_events is evaluated before its argument event::read()?.
RunDispatchLock ==
    /\ pc[Main] = "r_dlock"
    /\ ops.reads < MaxEvents
    /\ ViewWriteFree(Main)
    /\ IF viewPoisoned
       THEN Panic(Main)
       ELSE /\ viewLock' = [viewLock EXCEPT !.writer = Main]
            /\ pc' = [pc EXCEPT ![Main] = "r_evread"]
            /\ UNCHANGED <<shared, appLock, viewPoisoned, arg, runv, hist, nCalls>>

\* RunEventRead whose wait ends, without an event, once APPLICATION.is_running
\* is false.
RunEventReadCancellable ==
    /\ pc[Main] = "r_evread"
    /\ IF ~APPLICATION.is_running
       THEN /\ viewLock' = Dropped(Main)
            /\ pc' = [pc EXCEPT ![Main] = "r_reread"]
            /\ UNCHANGED <<shared, appLock, viewPoisoned, arg, runv, hist, nCalls>>
       ELSE /\ ops' = [ops EXCEPT !.reads = @ + 1,
                                  !.dispatches = @ + 1]
            /\ pc' = [pc EXCEPT ![Main] = "r_handler"]
            /\ inDispatch' = TRUE
            /\ hops' = 0
            /\ hres' = "none"
            /\ UNCHANGED <<shared, locks, arg, is_running, terminal, runResult,
                           nRuns, hist, nCalls>>

\* app.rs:114  event::read()?  blocks until an event arrives or the read
\* fails; with an event, handle_events is entered.
RunEventRead ==
    /\ pc[Main] = "r_evread"
    /\ ops' = [ops EXCEPT !.reads = @ + 1,
                          !.dispatches = @ + 1]
    /\ pc' = [pc EXCEPT ![Main] = "r_handler"]
    /\ inDispatch' = TRUE
    /\ hops' = 0
    /\ hres' = "none"
    /\ UNCHANGED <<shared, locks, arg, is_running, terminal, runResult, nRuns,
                   hist, nCalls>>

RunEventReadFails ==
    /\ pc[Main] = "r_evread"
    /\ ops' = [ops EXCEPT !.reads = @ + 1]
    /\ ReturnErr
    /\ UNCHANGED <<shared, appLock, viewPoisoned, arg, is_running, hops, hres,
                   terminal, nRuns, lastRendered, hreq, firstReq, dropped, nCalls>>

----
\* handle_events of the active view (view.rs:11-13, lib.rs:55-73): user code,
\* a sequence of calls into the crate and a result.

\* lib.rs:60-65  APPLICATION.write().unwrap().as_mut().unwrap().is_running = false
HandlerStop ==
    /\ pc[Main] = "r_handler"
    /\ hops < MaxHandlerOps
    /\ AppFree(Main)
    /\ APPLICATION.some
    /\ APPLICATION' = [APPLICATION EXCEPT !.is_running = FALSE]
    /\ hops' = hops + 1
    /\ stopping' = TRUE
    /\ UNCHANGED <<VIEW, _CHANGE_VIEW, _NEXT_VIEW, locks, ctl, is_running,
                   inDispatch, hres, terminal, runResult, ops, nRuns, lastRendered,
                   hreq, firstReq, dropped, nCalls>>

\* the handler calls change_view(v)
HandlerChangeView(v) ==
    /\ pc[Main] = "r_handler"
    /\ hops < MaxHandlerOps
    /\ hops' = hops + 1
    /\ pc' = [pc EXCEPT ![Main] = "cv_app"]
    /\ arg' = [arg EXCEPT ![Main] = v]
    /\ UNCHANGED <<shared, locks, is_running, inDispatch, hres, terminal,
                   runResult, ops, nRuns, hist, nCalls>>

\* the handler calls init(v)
HandlerInit(v) ==
    /\ pc[Main] = "r_handler"
    /\ hops < MaxHandlerOps
    /\ hops' = hops + 1
    /\ pc' = [pc EXCEPT ![Main] = "i_vlock"]
    /\ arg' = [arg EXCEPT ![Main] = v]
    /\ UNCHANGED <<shared, locks, is_running, inDispatch, hres, terminal,
                   runResult, ops, nRuns, hist, nCalls>>

\* view.rs:11  handle_events returns Ok(()) or an io::Error.
HandlerReturn(res) ==
    /\ pc[Main] = "r_handler"
    /\ hres' = res
    /\ inDispatch' = FALSE
    /\ hops' = 0
    /\ pc' = [pc EXCEPT ![Main] = "r_try"]
    /\ UNCHANGED <<shared, locks, arg, is_running, terminal, runResult,
                   ops, nRuns, hist, nCalls>>

\* RunTry without the `?`: the handler's Err is ignored.
RunTryIgnoringErr ==
    /\ pc[Main] = "r_try"
    /\ pc' = [pc EXCEPT ![Main] = "r_reread"]
    /\ viewLock' = Dropped(Main)
    /\ UNCHANGED <<shared, appLock, viewPoisoned, arg, runv, hist, nCalls>>

\* app.rs:114  ..handle_events(..)?;  Err leaves run, Ok goes on to the
\* re-read of is_running; the write guard of VIEW is dropped at the end of
\* the statement.
RunTry ==
    /\ pc[Main] = "r_try"
    /\ IF hres = "Err"
       THEN /\ ReturnErr
            /\ UNCHANGED <<shared, appLock, viewPoisoned, arg, is_running, hops,
                           hres, terminal, ops, nRuns, lastRendered, hreq,
                           firstReq, dropped, nCalls>>
       ELSE /\ pc' = [pc EXCEPT ![Main] = "r_reread"]
            /\ viewLock' = Dropped(Main)
            /\ UNCHANGED <<shared, appLock, viewPoisoned, arg, runv, hist, nCalls>>

\* RunReRead that keeps the local is_running as it was.
RunReReadStale ==
    /\ pc[Main] = "r_reread"
    /\ pc' = [pc EXCEPT ![Main] = "r_while"]
    /\ UNCHANGED <<shared, locks, arg, runv, hist, nCalls>>

\* app.rs:116-121  is_running = APPLICATION.read().unwrap().as_ref().expect(..).is_running;
RunReRead ==
    /\ pc[Main] = "r_reread"
    /\ AppFree(Main)
    /\ IF ~APPLICATION.some
       THEN Panic(Main)
       ELSE /\ is_running' = APPLICATION.is_running
            /\ pc' = [pc EXCEPT ![Main] = "r_while"]
            /\ UNCHANGED <<shared, locks, arg, inDispatch, hops, hres, terminal,
                           runResult, ops, nRuns, hist, nCalls>>

\* RunRestore of a run that applies a swap still pending before it returns.
RunRestoreApplyPending ==
    /\ pc[Main] = "r_restore"
    /\ VIEW' = IF _CHANGE_VIEW /\ _NEXT_VIEW # None THEN _NEXT_VIEW ELSE VIEW
    /\ _CHANGE_VIEW' = FALSE
    /\ _NEXT_VIEW' = None
    /\ terminal' = [terminal EXCEPT !.restored = @ + 1]
    /\ runResult' = "Ok"
    /\ stopping' = FALSE
    /\ pc' = [pc EXCEPT ![Main] = "idle"]
    /\ UNCHANGED <<APPLICATION, locks, arg, is_running, inDispatch, hops, hres, ops,
                   nRuns, lastRendered, hreq, firstReq, dropped, nCalls>>

\* app.rs:124-125  ratatui::restore(); Ok(())
RunRestore ==
    /\ pc[Main] = "r_restore"
    /\ terminal' = [terminal EXCEPT !.restored = @ + 1]
    /\ runResult' = "Ok"
    /\ stopping' = FALSE
    /\ pc' = [pc EXCEPT ![Main] = "idle"]
    /\ UNCHANGED <<shared, locks, arg, is_running, inDispatch, hops, hres, ops,
                   nRuns, lastRendered, hreq, firstReq, dropped, nCalls>>

RunStep ==
    \/ RunStart
    \/ RunReadApp
    \/ RunLoopTop
    \/ RunClearFlag
    \/ RunSwapLock
    \/ RunSwapTake
    \/ RunClearSlot
    \/ RunDrawBegin
    \/ RunRender
    \/ RunDispatchLock
    \/ RunEventRead
    \/ RunEventReadFails
    \/ HandlerStop
    \/ \E v \in NextViews : HandlerChangeView(v)
    \/ \E v \in InitViews : HandlerInit(v)
    \/ \E res \in {"Ok", "Err"} : HandlerReturn(res)
    \/ RunTry
    \/ RunReRead
    \/ RunRestore

----
\* Other threads (code outside the loop holding the pub statics).

\* APPLICATION.write().unwrap().as_mut().unwrap().is_running = false
\* (lib.rs:60-65), made by code outside the loop once init has run.
ExtStop(t) ==
    /\ pc[t] = "idle"
    /\ nCalls[t] < MaxExtCalls
    /\ AppFree(t)
    /\ APPLICATION.some
    /\ APPLICATION' = [APPLICATION EXCEPT !.is_running = FALSE]
    /\ nCalls' = [nCalls EXCEPT ![t] = @ + 1]
    /\ UNCHANGED <<VIEW, _CHANGE_VIEW, _NEXT_VIEW, locks, ctl, runv, hist>>

\* VIEW.read(): a reader of the active view takes the read guard (a poisoned
\* lock hands out no view to read) ..
ExtReadView(t) ==
    /\ pc[t] = "idle"
    /\ nCalls[t] < MaxExtCalls
    /\ ViewReadFree(t)
    /\ ~viewPoisoned
    /\ viewLock' = [viewLock EXCEPT !.readers = @ \cup {t}]
    /\ nCalls' = [nCalls EXCEPT ![t] = @ + 1]
    /\ pc' = [pc EXCEPT ![t] = "rv_held"]
    /\ UNCHANGED <<shared, appLock, viewPoisoned, arg, runv, hist>>

\* .. and drops it.
ExtReadViewDone(t) ==
    /\ pc[t] = "rv_held"
    /\ viewLock' = Dropped(t)
    /\ pc' = [pc EXCEPT ![t] = "idle"]
    /\ UNCHANGED <<shared, appLock, viewPoisoned, arg, runv, hist, nCalls>>

ExtStep(t) ==
    \/ \E v \in InitViews : StartInit(t, v)
    \/ \E v \in NextViews : StartChangeView(t, v)
    \/ CallStep(t)
    \/ ExtStop(t)
    \/ ExtReadView(t)
    \/ ExtReadViewDone(t)

----
\* The single-threaded program: "main" alone.
NextSeq ==
    \/ \E v \in InitViews : StartInit(Main, v)
    \/ \E v \in NextViews : StartChangeView(Main, v)
    \/ CallStep(Main)
    \/ RunStep

\* The program with other threads.
Next ==
    \/ NextSeq
    \/ \E t \in ExtThreads : ExtStep(t)

Spec == Init /\ [][Next]_vars

SpecSeq == Init /\ [][NextSeq]_vars

\* The program on one thread, where the thread keeps executing the code it
\* is in: a started run goes on (events keep arriving or the read fails), a
\* started call goes on, up to a write() on a lock the thread holds itself,
\* where it may hang for good ("hung").
SpecSeqFair == SpecSeq /\ WF_vars(RunStep) /\ WF_vars(CallStep(Main))

----
\* Code positions, for the statements about them.

InitPcs == {"i_vlock", "i_vset", "i_alock", "i_aset", "i_vdrop"}
ChangeViewPcs == {"cv_app", "cv_flag", "cv_setflag", "cv_store"}

\* Thread t takes a step of the call it is in.
Steps(t) == pc'[t] # pc[t]

\* "main" is between the render and the end of the dispatch of one iteration.
MidIteration ==
    /\ pc[Main] # "panicked"
    /\ pc[Main] \in {"r_dlock", "r_evread", "r_handler", "r_try"} \/ inDispatch

\* Thread t reads the active view: the render of the loop, an outside reader.
Reading(t) == pc[t] \in {"r_render", "rv_held"}

\* Thread t writes the active view: init from its write() on, the swap, the
\* dispatch (calls of the handler included).
Writing(t) ==
    \/ pc[t] \in {"i_vset", "i_alock", "i_aset", "i_vdrop"}
    \/ /\ t = Main
       /\ pc[t] # "panicked"
       /\ pc[t] \in {"r_take", "r_clearslot", "r_handler", "r_try"} \/ inDispatch

\* Thread t is inside its check-flag-then-set-and-store of change_view, or
\* inside the swap step of run, having read the flag.
InPendingSwap(t) ==
    \/ pc[t] \in {"cv_setflag", "cv_store"}
    \/ t = Main /\ pc[t] \in {"r_clearflag", "r_swaplock", "r_take", "r_clearslot"}

----
\* C1: a change_view made by the event handler during dispatch leaves VIEW
\* and APPLICATION as they are; between the render and the end of the dispatch
\* of one iteration the active view is the view that was rendered; a swap is
\* pending during a dispatch only for the view the handler itself queued (its
\* first request is never dropped); and the next render paints that view.
C1_SwapDeferred ==
    /\ [](MidIteration => VIEW = lastRendered)
    /\ []((inDispatch /\ pc[Main] # "panicked" /\ _CHANGE_VIEW)
            => (pc[Main] = "cv_store" \/ (hreq # None /\ _NEXT_VIEW = hreq)))
    /\ [][\A t \in Threads : (pc[t] \in ChangeViewPcs /\ Steps(t))
              => (VIEW' = VIEW /\ APPLICATION' = APPLICATION)]_vars
    /\ [][(pc[Main] = "r_render" /\ Steps(Main) /\ pc'[Main] # "panicked"
              /\ hreq # None) => lastRendered' = hreq]_vars

\* The handler has queued another view and the rendered view is still active.
C1_Witness ==
    /\ inDispatch
    /\ pc[Main] = "r_handler"
    /\ hreq # None
    /\ hreq # VIEW
    /\ VIEW = lastRendered
    /\ _NEXT_VIEW = hreq

\* C2: of the change_view calls made since the last swap was applied, the
\* first one's view stays in the pending slot whatever calls follow, and it
\* is the view the swap step installs.
C2_FirstRequestWins ==
    /\ []((firstReq # None /\ pc[Main] \notin {"cv_flag", "cv_setflag", "cv_store"})
            => /\ _NEXT_VIEW = firstReq
               /\ _CHANGE_VIEW \/ pc[Main] \in {"r_swaplock", "r_take"})
    /\ [][(pc[Main] = "r_take" /\ pc'[Main] = "r_clearslot") => VIEW' = firstReq]_vars
    /\ [][(dropped' # dropped /\ dropped' # None)
            => (_NEXT_VIEW' = _NEXT_VIEW /\ _CHANGE_VIEW' = _CHANGE_VIEW /\ VIEW' = VIEW)]_vars

\* A second request for another view has been dropped, the first is queued.
C2_Witness ==
    /\ dropped # None
    /\ firstReq # None
    /\ dropped # firstReq
    /\ _NEXT_VIEW = firstReq
    /\ pc[Main] = "r_handler"

\* C3: whenever run has returned, with Ok or with Err, every terminal it
\* acquired has been restored.
C3_ReleasedOnEveryExit ==
    (pc[Main] = "idle" /\ runResult \in {"Ok", "Err"})
        => terminal.restored = terminal.acquired

\* C4: once the handler has set is_running to false and returned Ok, run only
\* re-reads the flag, leaves the loop and restores the terminal: it applies no
\* swap, renders nothing, reads and dispatches no event, and returns Ok.
C4_StopTerminates ==
    /\ []((stopping /\ hres = "Ok" /\ pc[Main] \in RunPcs \ {"r_try"})
            => /\ pc[Main] \in {"r_reread", "r_while", "r_restore"}
               /\ ~APPLICATION.is_running
               /\ pc[Main] \in {"r_while", "r_restore"} => ~is_running)
    /\ [][(stopping /\ hres = "Ok" /\ pc[Main] \in RunPcs)
            => /\ ops' = ops
               /\ pc'[Main] # "panicked"
               /\ pc'[Main] = "idle" =>
                    (runResult' = "Ok" /\ terminal'.restored = terminal.restored + 1)]_vars

\* The handler stopped the application and run is about to return.
C4_Witness ==
    /\ stopping
    /\ hres = "Ok"
    /\ pc[Main] = "r_restore"
    /\ ops.reads >= 1

\* C5: once APPLICATION is set, no step of any init call changes the active
\* view, APPLICATION (is_running included), the swap-due flag or the slot.
C5_SingletonInit ==
    [][\A t \in Threads : (pc[t] \in InitPcs /\ Steps(t) /\ APPLICATION.some)
          => /\ VIEW' = VIEW
             /\ APPLICATION' = APPLICATION
             /\ _CHANGE_VIEW' = _CHANGE_VIEW
             /\ _NEXT_VIEW' = _NEXT_VIEW]_vars

\* A later init with another view is past its write of VIEW, after a stop.
C5_Witness ==
    \E t \in Threads :
        /\ pc[t] = "i_aset"
        /\ APPLICATION.some
        /\ ~APPLICATION.is_running
        /\ arg[t] # VIEW

\* C6: no thread reads or writes the active view while another writes it.
C6_MutualExclusion ==
    \A t, u \in Threads :
        (t # u /\ Writing(t)) => ~(Reading(u) \/ Writing(u))

\* The dispatch writes the active view while another thread waits to.
C6_Witness ==
    /\ pc[Main] = "r_handler"
    /\ \E t \in ExtThreads : pc[t] = "i_vlock"

\* C7: while run waits on the event source it holds no guard of VIEW.
C7_NoLockWhileWaiting ==
    pc[Main] = "r_evread" => ~ViewHeldBy(Main)

\* C8: no two threads are inside their accesses to the pending-swap cell at
\* the same time.
C8_PendingSwapExclusive ==
    \A t, u \in Threads :
        (t # u /\ InPendingSwap(t)) => ~InPendingSwap(u)

\* C9: when handle_events returned Err, run's next step returns that Err
\* with nothing rendered, read, dispatched or re-read; and run returns Ok only
\* with is_running read as false.
C9_HandlerFailureFatal ==
    /\ []((pc[Main] = "idle" /\ runResult = "Ok") => ~is_running)
    /\ [][(pc[Main] = "r_try" /\ hres = "Err" /\ Steps(Main))
            => /\ pc'[Main] = "idle"
               /\ runResult' = "Err"
               /\ ops' = ops
               /\ is_running' = is_running]_vars

\* run has returned the handler's Err.
C9_Witness ==
    /\ pc[Main] = "idle"
    /\ runResult = "Err"
    /\ hres = "Err"
    /\ is_running

\* C10: a change_view call that finds APPLICATION None panics and leaves the
\* swap-due flag, the slot and the active view as they are.
C10_ChangeViewBeforeInit ==
    [][\A t \in Threads : (pc[t] = "cv_app" /\ Steps(t) /\ ~APPLICATION.some)
          => /\ pc'[t] = "panicked"
             /\ _CHANGE_VIEW' = _CHANGE_VIEW
             /\ _NEXT_VIEW' = _NEXT_VIEW
             /\ VIEW' = VIEW]_vars

\* A change_view call has panicked before any init.
C10_Witness ==
    \E t \in Threads :
        /\ pc[t] = "panicked"
        /\ arg[t] \in NextViews
        /\ ~APPLICATION.some
        /\ ~_CHANGE_VIEW
        /\ _NEXT_VIEW = None

----
\* C11: a run that finds APPLICATION None panics at its first read of it: the
\* step leaves the shared state alone, and a run that ended this way has
\* applied no swap, painted no view, read no event and dispatched nothing.
C11_RunBeforeInit ==
    /\ [][(pc[Main] = "r_app" /\ Steps(Main) /\ ~APPLICATION.some)
            => /\ pc'[Main] = "panicked"
               /\ runResult' = "panic"
               /\ ops' = NoOps
               /\ UNCHANGED shared]_vars
    /\ []((runResult = "panic" /\ ~APPLICATION.some)
            => (pc[Main] = "panicked" /\ ops = NoOps /\ lastRendered = None))

C11_Witness ==
    /\ pc[Main] = "panicked"
    /\ runResult = "panic"
    /\ ~APPLICATION.some
    /\ terminal.acquired = 1
    /\ ops = NoOps

----
\* C12: no step of change_view touches the lock of VIEW, and a change_view
\* made by the handler, while the dispatch holds the write guard of VIEW,
\* can take its next step at every position: it returns without blocking.
C12_ChangeViewNeverBlocks ==
    /\ [][\A t \in Threads :
            (pc[t] \in ChangeViewPcs /\ Steps(t)) => viewLock' = viewLock]_vars
    /\ []((inDispatch /\ pc[Main] \in ChangeViewPcs)
            => (viewLock.writer = Main /\ ENABLED CallStep(Main)))

C12_Witness ==
    /\ inDispatch
    /\ pc[Main] = "cv_store"
    /\ viewLock.writer = Main

----
\* C13: the counts of one run move in step with the positions of the loop.
\* Between iterations renders, event reads and dispatches are equal and the
\* swaps applied are no more than the iterations; inside an iteration the
\* swap (at most one) comes first, then the one render, then the one event
\* read with its one dispatch; the dispatch goes to the rendered view; a run
\* that returned Ok rendered as often as it dispatched.
C13_IterationShape ==
    /\ []((pc[Main] \in {"r_while", "r_clearflag", "r_swaplock", "r_take",
                         "r_try", "r_reread", "r_restore"}
             \/ (inDispatch /\ pc[Main] # "panicked"))
            => /\ ops.renders = ops.reads
               /\ ops.reads = ops.dispatches
               /\ ops.swaps <= ops.renders)
    /\ [](pc[Main] \in {"r_clearslot", "r_draw", "r_render"}
            => /\ ops.renders = ops.reads
               /\ ops.reads = ops.dispatches
               /\ ops.swaps <= ops.renders + 1)
    /\ [](pc[Main] \in {"r_dlock", "r_evread"}
            => /\ ops.renders = ops.reads + 1
               /\ ops.reads = ops.dispatches
               /\ ops.swaps <= ops.renders)
    /\ []((inDispatch /\ pc[Main] # "panicked") => VIEW = lastRendered)
    /\ []((pc[Main] = "idle" /\ runResult = "Ok")
            => (ops.renders = ops.dispatches /\ ops.reads = ops.dispatches))

\* init, an event whose handler queues another view, an event whose handler
\* stops the loop: run returned Ok after two renders, the second of the new view.
C13_Witness ==
    /\ pc[Main] = "idle"
    /\ runResult = "Ok"
    /\ ops = [swaps |-> 1, renders |-> 2, reads |-> 2, dispatches |-> 2]
    /\ VIEW \in NextViews
    /\ lastRendered = VIEW
    /\ ~_CHANGE_VIEW
    /\ ~APPLICATION.is_running

----
\* run is under way and has not panicked.
RunLive == InRun /\ pc[Main] # "panicked"

\* "main" is at a VIEW.write() while it holds a guard of VIEW itself, or
\* hangs in it: the call never returns.
SelfDeadlock == pc[Main] = "hung" \/ (pc[Main] = "i_vlock" /\ ViewHeldBy(Main))

\* C14: an iteration that begins with the flag set goes through the swap
\* step, which finds the queued view in the slot, makes it the active view
\* and leaves the flag cleared and the slot empty, so that nothing is pending
\* when the render begins; and a request queued while run is under way is
\* in the end applied, unless run ends or blocks first.
C14_SwapConsumed ==
    /\ [][(pc[Main] = "r_while" /\ Steps(Main) /\ is_running /\ _CHANGE_VIEW)
            => pc'[Main] = "r_clearflag"]_vars
    /\ [](pc[Main] \in {"r_clearflag", "r_swaplock", "r_take"}
            => (_NEXT_VIEW # None /\ _NEXT_VIEW = firstReq))
    /\ [][(pc[Main] = "r_take" /\ Steps(Main))
            => /\ VIEW' = _NEXT_VIEW
               /\ _NEXT_VIEW' = None
               /\ ~_CHANGE_VIEW']_vars
    /\ [](pc[Main] \in {"r_draw", "r_render"}
            => (~_CHANGE_VIEW /\ _NEXT_VIEW = None))
    /\ \A v \in NextViews :
          (RunLive /\ _CHANGE_VIEW /\ _NEXT_VIEW = v)
             ~> \/ VIEW = v /\ ~_CHANGE_VIEW /\ _NEXT_VIEW = None
                \/ ~RunLive
                \/ SelfDeadlock

\* The swap step has just applied the view the handler queued.
C14_Witness ==
    /\ pc[Main] = "r_clearslot"
    /\ ops.renders = 1
    /\ ops.swaps = 1
    /\ VIEW = hreq
    /\ VIEW # lastRendered
    /\ ~_CHANGE_VIEW
    /\ _NEXT_VIEW = None

----
\* C15: run's own is_running changes only where run reads APPLICATION, before
\* the loop and at the end of an iteration; it is true at every position of
\* the loop body, whatever APPLICATION.is_running has become; the wait for an
\* event ends only with an event that is dispatched, or with the read
\* failing; run returns Ok only from the loop test having seen false.
C15_CooperativeStop ==
    /\ [][is_running' # is_running => pc[Main] \in {"r_app", "r_reread"}]_vars
    /\ []((pc[Main] \in {"r_clearflag", "r_swaplock", "r_take", "r_clearslot",
                         "r_draw", "r_render", "r_dlock", "r_evread",
                         "r_handler", "r_try", "r_reread"}
             \/ (inDispatch /\ pc[Main] # "panicked"))
            => is_running)
    /\ [][(pc[Main] = "r_evread" /\ Steps(Main))
            => \/ /\ pc'[Main] = "r_handler"
                  /\ ops'.dispatches = ops.dispatches + 1
               \/ runResult' = "Err"]_vars
    /\ [][(runResult' = "Ok" /\ runResult # "Ok")
            => (pc[Main] = "r_restore" /\ ~is_running)]_vars

\* Another thread has stopped the application while run waits for its first
\* event: run still holds is_running = true.
C15_Witness ==
    /\ pc[Main] = "r_evread"
    /\ ops.dispatches = 0
    /\ ~APPLICATION.is_running
    /\ is_running
    /\ runResult = "none"

----
\* Thread t is in init past its VIEW.write(): it holds the write guard.
InInitBody(t) == pc[t] \in {"i_vset", "i_alock", "i_aset", "i_vdrop"}

\* C16: init calls of several threads go through init's body one at a time;
\* the call that finds VIEW empty stores its own view, every other call
\* leaves the stored view in place; the call that creates the App creates it
\* running, with the view already stored.
C16_ConcurrentInit ==
    /\ [](\A t, u \in Threads : (InInitBody(t) /\ InInitBody(u)) => t = u)
    /\ [](\A t \in Threads : InInitBody(t) => viewLock.writer = t)
    /\ [][\A t \in Threads : (pc[t] \in InitPcs /\ Steps(t))
            => VIEW' = (IF VIEW = None /\ pc[t] = "i_vset" THEN arg[t] ELSE VIEW)]_vars
    /\ [][(~APPLICATION.some /\ APPLICATION'.some)
            => (APPLICATION' = NewApp /\ VIEW' = VIEW /\ VIEW \in InitViews)]_vars
    /\ [](APPLICATION.some => VIEW # None)

\* Two threads called init with different views: one is through, its view is
\* stored; the other is about to return and its view was not taken.
C16_Witness ==
    /\ pc[Main] = "i_aset"
    /\ APPLICATION.some
    /\ APPLICATION.is_running
    /\ nCalls["t1"] = 1
    /\ pc["t1"] = "idle"
    /\ VIEW \in InitViews
    /\ VIEW # arg[Main]

----
\* C17: whenever the loop has seen the flag set and goes to apply the swap,
\* the slot holds a view: take().unwrap() does not find it empty.
C17_PendingSwapConsistent ==
    pc[Main] \in {"r_clearflag", "r_swaplock", "r_take"} => _NEXT_VIEW # None

----
\* C18: no call the handler makes during the dispatch waits for a lock that
\* its own thread holds, and none of them ends in a panic.
C18_HandlerCallsReturn ==
    inDispatch => (~SelfDeadlock /\ pc[Main] # "panicked")

----
\* run has returned Ok with the request its handler queued in the last
\* iteration not applied.
StaleRequest == ~InRun /\ pc[Main] # "panicked" /\ runResult = "Ok" /\ hreq # None

\* C19: when run has returned Ok and the handler of its last iteration had
\* queued a view, the active view is still the one last rendered and the
\* request is still pending, flag set and slot full; a change_view made
\* after that is dropped and changes nothing.
C19_StaleRequestKept ==
    /\ [](StaleRequest => /\ VIEW = lastRendered
                          /\ _CHANGE_VIEW
                          /\ _NEXT_VIEW = hreq)
    /\ [][(StaleRequest /\ pc[Main] = "cv_flag" /\ Steps(Main))
            => /\ dropped' = arg[Main]
               /\ pc'[Main] = "idle"
               /\ UNCHANGED shared]_vars

\* After such a return, a later change_view for another view was dropped.
C19_Witness ==
    /\ StaleRequest
    /\ pc[Main] = "idle"
    /\ nCalls[Main] > MaxMainCalls
    /\ dropped # None
    /\ dropped # hreq
    /\ VIEW # hreq
    /\ ops.dispatches = 1

----
\* C20: a run that reads is_running = false from APPLICATION at its start
\* goes from the loop test straight to the restore and returns Ok: its steps
\* change none of APPLICATION, VIEW, _CHANGE_VIEW, _NEXT_VIEW, the terminal is
\* restored once, and no swap, render, event read or dispatch is counted.
C20_NoIterationWhenStopped ==
    /\ [][(pc[Main] = "r_app" /\ Steps(Main) /\ APPLICATION.some
              /\ ~APPLICATION.is_running)
            => (pc'[Main] = "r_while" /\ ~is_running')]_vars
    /\ [][(pc[Main] = "r_while" /\ Steps(Main) /\ ~is_running)
            => pc'[Main] = "r_restore"]_vars
    /\ [][(pc[Main] = "r_restore" /\ Steps(Main))
            => /\ pc'[Main] = "idle"
               /\ runResult' = "Ok"
               /\ terminal'.restored = terminal.restored + 1
               /\ terminal'.acquired = terminal.acquired]_vars
    /\ [][(pc[Main] \in {"r_app", "r_while", "r_restore"} /\ Steps(Main))
            => (UNCHANGED shared /\ ops' = ops)]_vars
    /\ []((pc[Main] = "idle" /\ runResult = "Ok" /\ ops.renders = 0)
            => (ops = NoOps /\ ~APPLICATION.is_running))

\* The application was stopped before run was called: run is back with Ok,
\* nothing was painted, the terminal is restored.
C20_Witness ==
    /\ pc[Main] = "idle"
    /\ runResult = "Ok"
    /\ ops = NoOps
    /\ lastRendered = None
    /\ VIEW # None
    /\ APPLICATION.some
    /\ ~APPLICATION.is_running
    /\ terminal = [acquired |-> 1, restored |-> 1]

====
